---- MODULE Spec2Model ----
(***************************************************************************)
(* The spike sorting tutorial notebook (1_spikesorting.py) as a state      *)
(* machine.  The state is the content of the pipeline's relational tables  *)
(* (db), the curation permissions held by the sortingview workspace, the   *)
(* notebook's variables (nb) and the position of the run (pc, run).        *)
(* Every code cell is one action; the cells run in the order of the file.  *)
(*                                                                         *)
(* A table is a function from primary key to the rest of the row.          *)
(***************************************************************************)
EXTENDS Integers, Sequences, FiniteSets, TLC

VARIABLES
    db,                 \* the tables of the pipeline, one field per table
    nwb,                \* content of the NWB file read by nd.insert_sessions
    authorized_users,   \* workspace side: sorting curation authorized users
    nb,                 \* the notebook's variables
    pc,                 \* the cell that runs next
    run,                \* 1: first run of the notebook, 2: the re-run
    snapshot            \* db at the end of the first run

vars == <<db, nwb, authorized_users, nb, pc, run, snapshot>>

----------------------------------------------------------------------------
(* Bounds of the model *)

\* lab members other than the user running the notebook
MaxOthers == 2

\* start times of an epoch range over 0..MaxStart
MaxStart == 1

----------------------------------------------------------------------------
(* Literals of the notebook *)

your_name == "FirstName LastName"
your_email == "gmail@gmail.com"
datajoint_username == "user"

\* the file handed to nd.insert_sessions is stored under this name
nwb_file_name == "montague20200802_tutorial_.nwb"

interval_list_name == "02_r1"
sort_interval_name == "02_r1_first180"

\* sort_interval[1] = sort_interval[0]+180
SortSeconds == 180

\* "that 90 minute epoch"
EpochSeconds == 5400

\* filter_param_dict['frequency_min'] = 600
HippocampusFrequencyMin == 600

\* "(600Hz-6KHz)": upper edge of the spike band filter
FrequencyMax == 6000

\* library default of frequency_min before the notebook adjusts it
DefaultFrequencyMin == 300

\* key['sort_group_id'] = 10
SortGroupId == 10

\* "32 unique sort_group_id"
NumSortGroups == 32

sorter_name == "mountainsort4"
parameter_set_name == "franklab_hippocampus_tutorial"

OtherNames == {"member" \o ToString(i) : i \in 1..MaxOthers}
Names == {your_name} \cup OtherNames

EmailOf(n) == IF n = your_name THEN your_email ELSE n \o "@gmail.com"

\* an address registered for the user before this run
OldEmail == "old@gmail.com"

SamplingRates == {20000, 30000}

----------------------------------------------------------------------------
(* The table interface: insert1, fetch1, populate *)

EmptyTable == [k \in {} |-> <<>>]

\* insert1(row, skip_duplicates): a row whose primary key is present is
\* kept as it is when skip_duplicates is set, and is a DuplicateError
\* otherwise.
Insert1_NoSkip(table, key, row, skip_duplicates) ==
    IF key \in DOMAIN table
    THEN [t |-> table, e |-> TRUE]
    ELSE [t |-> table @@ (key :> row), e |-> FALSE]

Insert1(table, key, row, skip_duplicates) ==
    IF key \in DOMAIN table
    THEN [t |-> table, e |-> ~skip_duplicates]
    ELSE [t |-> table @@ (key :> row), e |-> FALSE]

\* Table & restriction: the rows whose key agrees with the restriction on
\* every attribute the two share.
Restrict(table, restriction) ==
    {k \in DOMAIN table :
        \A f \in (DOMAIN restriction) \cap (DOMAIN k) : k[f] = restriction[f]}

\* Table.populate(restriction): make() runs for every upstream key of the
\* restriction that the table does not hold yet; made[k] is the row make()
\* computes for k.
Populate_None(table, restricted, made) == table

Populate(table, restricted, made) ==
    LET todo == {k \in restricted : k \notin DOMAIN table}
    IN  [k \in (DOMAIN table) \cup todo |->
            IF k \in DOMAIN table THEN table[k] ELSE made[k]]

----------------------------------------------------------------------------
(* Keys and rows the notebook builds *)

MemberKey(n) == [lab_member_name |-> n]

TeamRestriction == [team_name |-> "LorenLab"]

TeamMemberKey_OtherTeam == [team_name |-> "OtherLab", lab_member_name |-> your_name]

TeamMemberKey == [team_name |-> "LorenLab", lab_member_name |-> your_name]

MemberInfoRow(email, user) ==
    [google_user_name |-> email, datajoint_user_name |-> user]

SessionKey == [nwb_file_name |-> nwb_file_name]

IntervalListKey ==
    [nwb_file_name |-> nwb_file_name, interval_list_name |-> interval_list_name]

SortIntervalKey ==
    [nwb_file_name |-> nwb_file_name, sort_interval_name |-> sort_interval_name]

FilterKey(name) == [filter_parameter_set_name |-> name]

ArtifactKey(name) == [artifact_parameter_name |-> name]

SorterKey(name) == [sorter_name |-> name]

SorterParametersKey(name, set) ==
    [sorter_name |-> name, spikesorter_parameter_set_name |-> set]

\* SpikeSortingFilterParameters().insert_default(): the row named 'default'
FilterDefault ==
    [frequency_min |-> DefaultFrequencyMin, frequency_max |-> FrequencyMax]

\* the 'default' parameter_dict of mountainsort4 that
\* insert_from_spikeinterface stores (noise_overlap_threshold in hundredths,
\* num_workers 0 for None)
Ms4Default ==
    [detect_sign |-> -1, adjacency_radius |-> -1, curation |-> FALSE,
     filter |-> TRUE, freq_min |-> 300, freq_max |-> 6000, whiten |-> TRUE,
     num_workers |-> 0, verbose |-> FALSE, clip_size |-> 50,
     noise_overlap_threshold |-> 15]

\* np.int(1.33e-3 * sampling_rate): the product truncated towards zero
ClipSize(sampling_rate) == (133 * sampling_rate) \div 100000

\* the assignments to param_dict, applied to the fetched default
TutorialParams(default, sampling_rate) ==
    [default EXCEPT
        !.detect_sign = -1,
        !.adjacency_radius = 100,
        !.curation = FALSE,
        !.filter = FALSE,
        !.freq_min = 0,
        !.freq_max = 0,
        !.whiten = FALSE,
        !.num_workers = 4,
        !.verbose = TRUE,
        !.clip_size = ClipSize(sampling_rate),
        !.noise_overlap_threshold = 0]

\* sort_interval = np.copy(interval_list[0]); sort_interval[1] = sort_interval[0]+180
\* (interval_list[0] is the first element: index 1 of the sequence)
FirstSeconds(interval_list) ==
    [interval_list[1] EXCEPT ![2] = interval_list[1][1] + SortSeconds]

ssr_key ==
    [nwb_file_name |-> nwb_file_name,
     sort_group_id |-> SortGroupId,
     sort_interval_name |-> "02_r1_first180",
     filter_parameter_set_name |-> "franklab_default_hippocampus",
     artifact_parameter_name |-> "none",
     interval_list_name |-> "02_r1",
     team_name |-> "LorenLab"]

\* key = (SpikeSortingWorkspace & ssr_key).fetch1("KEY") with the sorter and
\* its parameter set added
SortingKey(workspace_key) ==
    [f \in (DOMAIN workspace_key) \cup {"sorter_name", "spikesorter_parameter_set_name"} |->
        IF f = "sorter_name" THEN sorter_name
        ELSE IF f = "spikesorter_parameter_set_name" THEN parameter_set_name
        ELSE workspace_key[f]]

----------------------------------------------------------------------------
(* The state before the first cell *)

\* '02_r1_first600': the seconds of the sort interval of an earlier session
OldSortSeconds == 600

\* the notebook's variables before any cell has run
NoValue == <<>>

FreshNotebook ==
    [lorenlab_team_members |-> {},
     made_it_in |-> FALSE,
     interval_list |-> NoValue,
     sort_interval |-> NoValue,
     fetched_sort_interval |-> NoValue,
     filter_param_dict |-> NoValue,
     ms4_default_params |-> NoValue,
     param_dict |-> NoValue,
     p |-> NoValue,
     ss_key |-> NoValue,
     sorting_id |-> NoValue,
     member_dict |-> {}]

\* a table holding one row, or none when rows is empty
TableOf(key, rows) == [k \in {key : r \in rows} |-> CHOOSE r \in rows : TRUE]

\* what nd.insert_sessions stores for the file: the session, the epoch's
\* valid_times and the sampling rate of the raw data
IntervalListRow(file) ==
    [valid_times |-> << <<file.start, file.start + EpochSeconds>> >>]

RawRow(file) == [sampling_rate |-> file.sampling_rate]

\* The database is shared: members, the session, a sort interval and a
\* sorter parameter set of the tutorial's names may be there already, left
\* by this user or by somebody else.
Init ==
    \E youIn \in BOOLEAN, youInfo \in SUBSET {your_email, OldEmail},
       youTeam \in BOOLEAN,
       othersInfo \in SUBSET OtherNames, othersTeam \in SUBSET OtherNames,
       file \in [start : 0..MaxStart, sampling_rate : SamplingRates],
       sessionIn \in BOOLEAN,
       oldSeconds \in SUBSET {SortSeconds, OldSortSeconds},
       oldParams \in SUBSET ({Ms4Default} \cup
                             {TutorialParams(Ms4Default, r) : r \in SamplingRates}) :
      /\ Cardinality(youInfo) <= 1
      /\ Cardinality(oldSeconds) <= 1
      /\ Cardinality(oldParams) <= 1
      /\ ~youIn => (youInfo = {} /\ ~youTeam)
      /\ ~sessionIn => oldSeconds = {}
      /\ nwb = file
      /\ db =
          [LabMember |->
              [k \in {MemberKey(n) : n \in OtherNames \cup
                        (IF youIn THEN {your_name} ELSE {})} |-> <<>>],
           LabMemberInfo |->
              [k \in {MemberKey(n) : n \in othersInfo \cup
                        (IF youInfo = {} THEN {} ELSE {your_name})} |->
                  IF k.lab_member_name = your_name
                  THEN MemberInfoRow(CHOOSE e \in youInfo : TRUE, datajoint_username)
                  ELSE MemberInfoRow(EmailOf(k.lab_member_name), k.lab_member_name)],
           LabTeamMember |->
              [k \in {[team_name |-> "LorenLab", lab_member_name |-> n] :
                        n \in othersTeam \cup
                          (IF youTeam THEN {your_name} ELSE {})} |-> <<>>],
           Session |-> TableOf(SessionKey, IF sessionIn THEN {<<>>} ELSE {}),
           IntervalList |->
              TableOf(IntervalListKey,
                      IF sessionIn THEN {IntervalListRow(file)} ELSE {}),
           Raw |-> TableOf(SessionKey, IF sessionIn THEN {RawRow(file)} ELSE {}),
           SortGroup |-> EmptyTable,
           SortInterval |->
              TableOf(SortIntervalKey,
                      {[sort_interval |-> <<file.start, file.start + d>>] :
                          d \in oldSeconds}),
           SpikeSortingFilterParameters |-> EmptyTable,
           SpikeSortingArtifactDetectionParameters |-> EmptyTable,
           SpikeSortingRecordingSelection |-> EmptyTable,
           SpikeSortingRecording |-> EmptyTable,
           SpikeSortingWorkspace |-> EmptyTable,
           SpikeSorter |->
              TableOf(SorterKey(sorter_name),
                      IF oldParams = {} THEN {} ELSE {<<>>}),
           SpikeSorterParameters |->
              TableOf(SorterParametersKey(sorter_name, "default"),
                      IF oldParams = {} THEN {}
                      ELSE {[parameter_dict |-> Ms4Default]})
              @@ TableOf(SorterParametersKey(sorter_name, parameter_set_name),
                         {[parameter_dict |-> d] : d \in oldParams}),
           SpikeSortingSelection |-> EmptyTable,
           SpikeSorting |-> EmptyTable,
           SortingID |-> EmptyTable]
      /\ authorized_users = {}
      /\ nb = FreshNotebook
      /\ pc = "membership"
      /\ run = 1
      /\ snapshot = NoValue

----------------------------------------------------------------------------
(* The cells *)

\* the cell ends: the next cell is due, with the tables and variables as given
Goto(next, d, n) ==
    /\ pc' = next
    /\ db' = d
    /\ nb' = n
    /\ UNCHANGED <<nwb, authorized_users, run, snapshot>>

\* a statement raises: the run stops with what the statements before it did
Raise(d, n) == Goto("error", d, n)

\* lorenlab_team_members = (LabTeam().LabTeamMember() & {'team_name' : 'LorenLab'})
\*                             .fetch('lab_member_name').tolist()
TeamMembers(d) ==
    {k.lab_member_name : k \in Restrict(d.LabTeamMember, TeamRestriction)}

\* In[3]: the membership cell
Cell_membership ==
    /\ pc = "membership"
    /\ LET n1 == [nb EXCEPT !.lorenlab_team_members = TeamMembers(db)]
           m  == Insert1(db.LabMember, MemberKey(your_name), <<>>, TRUE)
           d1 == [db EXCEPT !.LabMember = m.t]
           i  == Insert1(d1.LabMemberInfo, MemberKey(your_name),
                         MemberInfoRow(your_email, datajoint_username), TRUE)
           d2 == [d1 EXCEPT !.LabMemberInfo = i.t]
           t  == Insert1(d2.LabTeamMember, TeamMemberKey, <<>>, TRUE)
           d3 == [d2 EXCEPT !.LabTeamMember = t.t]
       IN  IF m.e THEN Raise(db, n1)
           ELSE IF i.e THEN Raise(d1, n1)
           ELSE IF t.e THEN Raise(d2, n1)
           ELSE Goto("check", d3, n1)

\* In[4]: the double-check, completed as the cell before it shows
Cell_check ==
    /\ pc = "check"
    /\ Goto("insert_sessions", db,
            [nb EXCEPT !.made_it_in = your_name \in TeamMembers(db)])

\* In[5]: nd.insert_sessions; a file that is in already is a warning
Cell_insert_sessions ==
    /\ pc = "insert_sessions"
    /\ LET s == Insert1(db.Session, SessionKey, <<>>, TRUE)
           l == Insert1(db.IntervalList, IntervalListKey, IntervalListRow(nwb), TRUE)
           r == Insert1(db.Raw, SessionKey, RawRow(nwb), TRUE)
       IN  Goto("set_group_by_shank",
                [db EXCEPT !.Session = s.t, !.IntervalList = l.t, !.Raw = r.t], nb)

\* fetch1 needs exactly one row in the restriction
Fetch1Ok(table, restriction) == Cardinality(Restrict(table, restriction)) = 1

Fetch1(table, restriction) ==
    table[CHOOSE k \in Restrict(table, restriction) : TRUE]

Fetch1Key(table, restriction) ==
    CHOOSE k \in Restrict(table, restriction) : TRUE

\* In[6]: SortGroup().set_group_by_shank: the file's sort groups are
\* replaced by one group per shank
Cell_set_group_by_shank ==
    /\ pc = "set_group_by_shank"
    /\ LET kept == {k \in DOMAIN db.SortGroup : k.nwb_file_name # nwb_file_name}
           made == {[nwb_file_name |-> nwb_file_name, sort_group_id |-> g] :
                        g \in 0..(NumSortGroups - 1)}
       IN  Goto("fetch_interval_list",
                [db EXCEPT !.SortGroup =
                    [k \in kept \cup made |->
                        IF k \in kept THEN db.SortGroup[k] ELSE <<>>]],
                nb)

\* In[9]: interval_list = (IntervalList & {...}).fetch1('valid_times')
Cell_fetch_interval_list ==
    /\ pc = "fetch_interval_list"
    /\ IF Fetch1Ok(db.IntervalList, IntervalListKey)
       THEN Goto("sort_interval", db,
                 [nb EXCEPT !.interval_list =
                     Fetch1(db.IntervalList, IntervalListKey).valid_times])
       ELSE Raise(db, nb)

\* In[10]: the first 180 seconds of the epoch
Cell_sort_interval ==
    /\ pc = "sort_interval"
    /\ Goto("SortInterval_insert", db,
            [nb EXCEPT !.sort_interval = FirstSeconds(nb.interval_list)])

\* In[11]: SortInterval.insert1({...}, skip_duplicates=True)
Cell_SortInterval_insert ==
    /\ pc = "SortInterval_insert"
    /\ LET i == Insert1(db.SortInterval, SortIntervalKey,
                        [sort_interval |-> nb.sort_interval], TRUE)
       IN  IF i.e THEN Raise(db, nb)
           ELSE Goto("fetch_sort_interval", [db EXCEPT !.SortInterval = i.t], nb)

\* In[13]: fetched_sort_interval = (SortInterval & {...}).fetch1('sort_interval')
Cell_fetch_sort_interval ==
    /\ pc = "fetch_sort_interval"
    /\ IF Fetch1Ok(db.SortInterval, SortIntervalKey)
       THEN Goto("filter_default", db,
                 [nb EXCEPT !.fetched_sort_interval =
                     Fetch1(db.SortInterval, SortIntervalKey).sort_interval])
       ELSE Raise(db, nb)

\* In[15]: insert_default() and the fetch of the default filter parameters
Cell_filter_default ==
    /\ pc = "filter_default"
    /\ LET i == Insert1(db.SpikeSortingFilterParameters, FilterKey("default"),
                        [filter_parameter_dict |-> FilterDefault], TRUE)
           d == [db EXCEPT !.SpikeSortingFilterParameters = i.t]
       IN  IF Fetch1Ok(d.SpikeSortingFilterParameters, FilterKey("default"))
           THEN Goto("filter_insert", d,
                     [nb EXCEPT !.filter_param_dict =
                         Fetch1(d.SpikeSortingFilterParameters,
                                FilterKey("default")).filter_parameter_dict])
           ELSE Raise(d, nb)

\* In[16]: frequency_min set to 600 and stored as 'franklab_default_hippocampus'
Cell_filter_insert ==
    /\ pc = "filter_insert"
    /\ LET f == [nb.filter_param_dict EXCEPT !.frequency_min = HippocampusFrequencyMin]
           i == Insert1(db.SpikeSortingFilterParameters,
                        FilterKey("franklab_default_hippocampus"),
                        [filter_parameter_dict |-> f], TRUE)
           n == [nb EXCEPT !.filter_param_dict = f]
       IN  IF i.e THEN Raise(db, n)
           ELSE Goto("artifact_default",
                     [db EXCEPT !.SpikeSortingFilterParameters = i.t], n)

\* In[17]: SpikeSortingArtifactDetectionParameters().insert_default(): 'none'
Cell_artifact_default ==
    /\ pc = "artifact_default"
    /\ LET i == Insert1(db.SpikeSortingArtifactDetectionParameters,
                        ArtifactKey("none"), <<>>, TRUE)
       IN  Goto("ssr_selection_insert",
                [db EXCEPT !.SpikeSortingArtifactDetectionParameters = i.t], nb)

\* In[19]: SpikeSortingRecordingSelection.insert1(ssr_key, skip_duplicates=True)
Cell_ssr_selection_insert ==
    /\ pc = "ssr_selection_insert"
    /\ LET i == Insert1(db.SpikeSortingRecordingSelection, ssr_key, <<>>, TRUE)
       IN  IF i.e THEN Raise(db, nb)
           ELSE Goto("ssr_populate",
                     [db EXCEPT !.SpikeSortingRecordingSelection = i.t], nb)

\* the recording make() extracts for a selection: the stored sort interval
RecordingRows(d, keys) ==
    [k \in keys |->
        [sort_interval |-> Fetch1(d.SortInterval, k).sort_interval]]

\* In[20]: SpikeSortingRecording.populate([(SpikeSortingRecordingSelection & ssr_key).proj()])
Cell_ssr_populate ==
    /\ pc = "ssr_populate"
    /\ LET keys == Restrict(db.SpikeSortingRecordingSelection, ssr_key)
       IN  Goto("workspace_populate",
                [db EXCEPT !.SpikeSortingRecording =
                    Populate(db.SpikeSortingRecording, keys, RecordingRows(db, keys))],
                nb)

WorkspaceRows(keys) ==
    [k \in keys |-> [workspace_uri |-> "workspace://" \o k.sort_interval_name]]

\* In[22]: SpikeSortingWorkspace.populate()
Cell_workspace_populate ==
    /\ pc = "workspace_populate"
    /\ LET keys == DOMAIN db.SpikeSortingRecording
       IN  Goto("sorter_insert",
                [db EXCEPT !.SpikeSortingWorkspace =
                    Populate(db.SpikeSortingWorkspace, keys, WorkspaceRows(keys))],
                nb)

\* In[24]: SpikeSorter().insert_from_spikeinterface() and
\* SpikeSorterParameters().insert_from_spikeinterface()
Cell_sorter_insert ==
    /\ pc = "sorter_insert"
    /\ LET s == Insert1(db.SpikeSorter, SorterKey(sorter_name), <<>>, TRUE)
           q == Insert1(db.SpikeSorterParameters,
                        SorterParametersKey(sorter_name, "default"),
                        [parameter_dict |-> Ms4Default], TRUE)
       IN  Goto("ms4_default",
                [db EXCEPT !.SpikeSorter = s.t, !.SpikeSorterParameters = q.t], nb)

\* a whole row as fetch1() returns it: the key's attributes and the row's
WholeRow(table, key) ==
    [f \in (DOMAIN key) \cup (DOMAIN table[key]) |->
        IF f \in DOMAIN key THEN key[f] ELSE table[key][f]]

\* In[25]: ms4_default_params = (SpikeSorterParameters & {...}).fetch1()
Cell_ms4_default ==
    /\ pc = "ms4_default"
    /\ LET r == SorterParametersKey(sorter_name, "default")
       IN  IF Fetch1Ok(db.SpikeSorterParameters, r)
           THEN Goto("param_dict", db,
                     [nb EXCEPT !.ms4_default_params =
                         WholeRow(db.SpikeSorterParameters, r)])
           ELSE Raise(db, nb)

\* In[26]: the tutorial's parameters
Cell_param_dict ==
    /\ pc = "param_dict"
    /\ IF Fetch1Ok(db.Raw, SessionKey)
       THEN Goto("sorter_params_insert", db,
                 [nb EXCEPT !.param_dict =
                     TutorialParams(nb.ms4_default_params.parameter_dict,
                                    Fetch1(db.Raw, SessionKey).sampling_rate)])
       ELSE Raise(db, nb)

\* In[28]: SpikeSorterParameters.insert1({...}, skip_duplicates=True) and
\* the check p = (SpikeSorterParameters & {...}).fetch1()
Cell_sorter_params_insert ==
    /\ pc = "sorter_params_insert"
    /\ LET k == SorterParametersKey(sorter_name, parameter_set_name)
           i == Insert1(db.SpikeSorterParameters, k,
                        [parameter_dict |-> nb.param_dict], TRUE)
           d == [db EXCEPT !.SpikeSorterParameters = i.t]
       IN  IF i.e THEN Raise(db, nb)
           ELSE IF Fetch1Ok(d.SpikeSorterParameters, k)
           THEN Goto("ss_selection", d,
                     [nb EXCEPT !.p = WholeRow(d.SpikeSorterParameters, k)])
           ELSE Raise(d, nb)

\* In[29]: ss_key from the workspace's key, and
\* SpikeSortingSelection.insert1(ss_key, skip_duplicates=True)
Cell_ss_selection ==
    /\ pc = "ss_selection"
    /\ IF Fetch1Ok(db.SpikeSortingWorkspace, ssr_key)
       THEN LET key == SortingKey(Fetch1Key(db.SpikeSortingWorkspace, ssr_key))
                n == [nb EXCEPT !.ss_key = key]
                i == Insert1(db.SpikeSortingSelection, key, <<>>, TRUE)
            IN  IF i.e THEN Raise(db, n)
                ELSE Goto("sorting_populate",
                          [db EXCEPT !.SpikeSortingSelection = i.t], n)
       ELSE Raise(db, nb)

\* the sorting make() stores: it runs the sorter with the stored parameters
SortingRows(d, keys) ==
    [k \in keys |->
        [parameter_dict |-> Fetch1(d.SpikeSorterParameters, k).parameter_dict]]

SortingIDRows(keys) ==
    [k \in keys |-> [sorting_id |-> "sorting:" \o k.spikesorter_parameter_set_name]]

\* In[30]: SpikeSorting.populate([(SpikeSortingSelection & ss_key).proj()])
Cell_sorting_populate ==
    /\ pc = "sorting_populate"
    /\ LET keys == Restrict(db.SpikeSortingSelection, nb.ss_key)
       IN  Goto("precalculate",
                [db EXCEPT
                    !.SpikeSorting =
                        Populate(db.SpikeSorting, keys, SortingRows(db, keys)),
                    !.SortingID =
                        Populate(db.SortingID, keys, SortingIDRows(keys))],
                nb)

\* In[32]: SpikeSortingWorkspace().precalculate(ssr_key): no table changes
Cell_precalculate ==
    /\ pc = "precalculate"
    /\ Goto("authorize", db, nb)

\* member_emails = LabMember().LabMemberInfo().fetch('lab_member_name','google_user_name')
\* member_dict = [email for name, email in zip(...) if name in lorenlab_team_members]
MemberEmails(d, team_members) ==
    {d.LabMemberInfo[k].google_user_name :
        k \in {k \in DOMAIN d.LabMemberInfo : k.lab_member_name \in team_members}}

\* In[33]: the workspace is loaded and the team's members are authorized
Cell_authorize ==
    /\ pc = "authorize"
    /\ IF Fetch1Ok(db.SpikeSortingWorkspace, ssr_key) /\ Fetch1Ok(db.SortingID, ssr_key)
       THEN LET emails == MemberEmails(db, nb.lorenlab_team_members)
            IN  /\ authorized_users' = emails
                /\ nb' = [nb EXCEPT
                            !.sorting_id = Fetch1(db.SortingID, ssr_key).sorting_id,
                            !.member_dict = emails]
                /\ pc' = "done"
       ELSE /\ pc' = "error"
            /\ UNCHANGED <<authorized_users, nb>>
    /\ UNCHANGED <<db, nwb, run, snapshot>>

\* The notebook is run again, from its first cell, on the same database.
Rerun ==
    /\ pc = "done"
    /\ run = 1
    /\ run' = 2
    /\ snapshot' = db
    /\ nb' = FreshNotebook
    /\ pc' = "membership"
    /\ UNCHANGED <<db, nwb, authorized_users>>

Next ==
    \/ Cell_membership
    \/ Cell_check
    \/ Cell_insert_sessions
    \/ Cell_set_group_by_shank
    \/ Cell_fetch_interval_list
    \/ Cell_sort_interval
    \/ Cell_SortInterval_insert
    \/ Cell_fetch_sort_interval
    \/ Cell_filter_default
    \/ Cell_filter_insert
    \/ Cell_artifact_default
    \/ Cell_ssr_selection_insert
    \/ Cell_ssr_populate
    \/ Cell_workspace_populate
    \/ Cell_sorter_insert
    \/ Cell_ms4_default
    \/ Cell_param_dict
    \/ Cell_sorter_params_insert
    \/ Cell_ss_selection
    \/ Cell_sorting_populate
    \/ Cell_precalculate
    \/ Cell_authorize
    \/ Rerun

Spec == Init /\ [][Next]_vars

----------------------------------------------------------------------------
(* Properties *)

\* the start of the first valid_times interval of interval list '02_r1'
EpochStart == db.IntervalList[IntervalListKey].valid_times[1][1]

\* C1: when the notebook has authorized the curation users, the authorized
\* list is exactly the emails of the lab members who are on the 'LorenLab'
\* team at that point, the user added by the membership cell included.
C1_AuthorizedIsCurrentTeam ==
    pc = "done" => authorized_users = MemberEmails(db, TeamMembers(db))

\* C2: once the membership cell has run, your_name is among the
\* lab_member_name values of LabTeamMember restricted to 'LorenLab', and
\* the double-check finds it, whatever the tables held before.
C2_UserOnTeam ==
    /\ pc \notin {"membership", "error"} => your_name \in TeamMembers(db)
    /\ pc \notin {"membership", "check", "error"} => nb.made_it_in

\* C2 witness: the user was not on the team when the cell fetched the
\* members, and is on it after the cell.
C2_Witness ==
    /\ run = 1
    /\ pc = "check"
    /\ your_name \notin nb.lorenlab_team_members
    /\ your_name \in TeamMembers(db)

\* C3: the sort interval fetched after the insert cell starts at the start
\* of the epoch's first valid_times interval and ends 180 seconds later,
\* whatever SortInterval held before.
C3_FetchedIs180Seconds ==
    pc = "filter_default" =>
        nb.fetched_sort_interval = <<EpochStart, EpochStart + SortSeconds>>

\* C4: after SpikeSorterParameters.insert1, the fetched row p exists and its
\* parameter_dict is the param_dict the notebook built, whatever
\* SpikeSorterParameters held before.
C4_InsertedParamsFetched ==
    pc = "ss_selection" =>
        /\ SorterParametersKey(sorter_name, parameter_set_name)
              \in DOMAIN db.SpikeSorterParameters
        /\ nb.p.parameter_dict = nb.param_dict

C6_PopulateAfterUpstream ==
    /\ pc = "ssr_populate" =>
          ssr_key \in DOMAIN db.SpikeSortingRecordingSelection
    /\ pc = "workspace_populate" =>
          ssr_key \in DOMAIN db.SpikeSortingRecording
    /\ pc = "sorting_populate" =>
          /\ Restrict(db.SpikeSortingWorkspace, nb.ss_key) # {}
          /\ nb.ss_key \in DOMAIN db.SpikeSortingSelection
    /\ pc = "done" => nb.ss_key \in DOMAIN db.SpikeSorting

\* C6 witness: the first run has ended and the sorting for ss_key is stored.
C6_Witness ==
    /\ run = 1
    /\ pc = "done"
    /\ nb.ss_key = SortingKey(ssr_key)
    /\ nb.ss_key \in DOMAIN db.SpikeSorting

====
